---- MODULE Spec2Model ----
(***************************************************************************)
(* Model of mutiny-core's gossip relay handler (peermanager.rs).           *)
(*                                                                         *)
(* GossipMessageHandler holds a metadata store (storage), a shared         *)
(* network graph (network_graph) and a logger.  Every RoutingMessageHandler *)
(* method is one action.  The network graph belongs to the lightning crate  *)
(* and is modelled as a recording stub: it counts the calls it receives,    *)
(* remembers which UTXO lookup it was handed, and accepts or rejects a      *)
(* message as the environment decides.  The storage helpers                 *)
(* read_peer_info / save_ln_peer_info live in crate::gossip and are         *)
(* modelled as a key-value store whose operations may fail.                 *)
(*                                                                         *)
(* The peer session table itself is the lightning crate's PeerManager, to  *)
(* which peermanager.rs only forwards; it is not modelled.                 *)
(*                                                                         *)
(* SpecNodeManager models node-manager's NodeManager (nodemanager.rs): the *)
(* stored mnemonic, the constructor and show_seed.                         *)
(***************************************************************************)
EXTENDS Naturals, FiniteSets, Sequences, TLC

\* ------------------------------------------------------------------ bounds
MaxOps == 2
MaxPeers == 2
MaxChannels == 1

NodeIds == 1..MaxPeers
ShortChannelIds == 1..MaxChannels
Aliases == {"old", "new"}
Colors == {<<0, 0, 0>>, <<1, 2, 3>>}

\* ------------------------------------------------- Rust Option and Result
None == [some |-> FALSE]
Some(v) == [some |-> TRUE, val |-> v]
Ok(v) == [ok |-> TRUE, val |-> v]
Err(e) == [ok |-> FALSE, err |-> e]
Unit == "unit"
\* Rust's bool false: the handlers' "no further relay" answer.
false == "false"

\* Result::ok : Result<T, E> -> Option<T>
ResultOk(r) == IF r.ok THEN Some(r.val) ELSE None
\* Option::flatten : Option<Option<T>> -> Option<T>
OptionFlatten(o) == IF o.some THEN o.val ELSE None

\* ---------------------------------------------------------------- messages
\* msgs::NodeAnnouncement (contents): node_id, alias, rgb, addresses.
NodeAnnouncements ==
    [node_id : NodeIds, alias : Aliases, rgb_color : Colors, addresses : {<<>>}]
\* msgs::ChannelAnnouncement and msgs::ChannelUpdate, by short channel id.
ChannelAnnouncements == [short_channel_id : ShortChannelIds]
ChannelUpdates == [short_channel_id : ShortChannelIds]

\* What the environment decides while one handler runs: whether the store
\* read fails, whether the store write fails, whether the graph rejects.
Envs == [read_fails : BOOLEAN, write_fails : BOOLEAN, graph_rejects : BOOLEAN]
GraphEnvs == {e \in Envs : ~e.read_fails /\ ~e.write_fails}

\* ------------------------------------------------------------------- state
VARIABLES storage, network_graph, logger, last, nOps

\* node-manager (nodemanager.rs): the mnemonic kept in browser storage, the
\* NodeManager objects constructed so far, and the last call made on them.
VARIABLES mnemonic_store, managers, nm_last

nmVars == <<mnemonic_store, managers, nm_last>>

vars == <<storage, network_graph, logger, last, nOps, nmVars>>

\* The handler object: the three fields of struct GossipMessageHandler.
Self == [storage |-> storage, network_graph |-> network_graph, logger |-> logger]

\* Peer metadata records, as persisted per identity.
PeerMetadata == [node_id : NodeIds, alias : Aliases, rgb_color : Colors]

\* ------------------------------------------------------------ metadata store
\* read_peer_info(&storage, &node_id) -> Result<Option<record>, _>
read_peer_info(st, node_id, fails) ==
    IF fails THEN Err("StoreError")
    ELSE Ok(IF node_id \in DOMAIN st THEN Some(st[node_id]) ELSE None)

\* NodeAnnouncement -> metadata record (msg.clone().into())
NodeAnnouncementInto(msg) ==
    [node_id |-> msg.node_id, alias |-> msg.alias, rgb_color |-> msg.rgb_color]

\* save_ln_peer_info(&storage, &node_id, &info) -> Result<(), _>
save_ln_peer_info(st, node_id, info, fails) ==
    IF fails THEN [res |-> Err("StoreError"), storage |-> st]
    ELSE [res |-> Ok(Unit),
          storage |-> [k \in (DOMAIN st) \cup {node_id} |->
                          IF k = node_id THEN info ELSE st[k]]]

\* --------------------------------------------------------------- UTXO lookup
\* ErroringUtxoLookup::get_utxo: fails for every chain hash and channel id.
ErroringUtxoLookup_get_utxo(genesis_hash, short_channel_id) == Err("UnknownTx")

\* ------------------------------------------------------ network graph (stub)
update_node_from_announcement(graph, msg, rejects) ==
    LET g == [graph EXCEPT !.calls.update_node_from_announcement = @ + 1]
    IN  IF rejects THEN [res |-> Err("ValidationError"), graph |-> g]
        ELSE [res |-> Ok(Unit),
              graph |-> [g EXCEPT !.nodes = @ \cup {msg.node_id}]]

\* utxo_lookup is an Option: None skips the lookup, Some(l) consults l.
update_channel_from_announcement(graph, msg, utxo_lookup, rejects) ==
    LET g == [graph EXCEPT !.calls.update_channel_from_announcement = @ + 1,
                           !.lookups = @ \cup {utxo_lookup}]
        gu == [g EXCEPT !.calls.get_utxo = @ + 1]
        add(h) == [h EXCEPT !.channels = @ \cup {msg.short_channel_id}]
    IN  IF rejects THEN [res |-> Err("ValidationError"), graph |-> g]
        ELSE IF utxo_lookup.some
        THEN IF ErroringUtxoLookup_get_utxo("genesis", msg.short_channel_id).ok
             THEN [res |-> Ok(Unit), graph |-> add(gu)]
             ELSE [res |-> Err("ValidationError"), graph |-> gu]
        ELSE [res |-> Ok(Unit), graph |-> add(g)]

update_channel(graph, msg, rejects) ==
    LET g == [graph EXCEPT !.calls.update_channel = @ + 1]
    IN  IF rejects THEN [res |-> Err("ValidationError"), graph |-> g]
        ELSE [res |-> Ok(Unit),
              graph |-> [g EXCEPT !.updated = @ \cup {msg.short_channel_id}]]

\* ------------------------------------------------- RoutingMessageHandler
\* Each method maps the handler (self), its arguments and the environment's
\* decisions to the handler afterwards, the value returned, and the number
\* of calls it made on the metadata store (store_calls).

\* Variant: the save is attempted whatever the lookup answered.
handle_node_announcement_unguarded(self, msg, env) ==
    LET node_id == msg.node_id
        saved == save_ln_peer_info(self.storage, node_id,
                                   NodeAnnouncementInto(msg), env.write_fails)
        upd == update_node_from_announcement(self.network_graph, msg,
                                             env.graph_rejects)
    IN  [store_calls |-> 1,
         self |-> [storage |-> saved.storage, network_graph |-> upd.graph,
                   logger |-> IF saved.res.ok THEN self.logger
                              ELSE self.logger + 1],
         result |-> IF upd.res.ok THEN Ok(false) ELSE Err(upd.res.err)]

\* Variant: the lookup test is inverted, so an existing record is never saved.
handle_node_announcement_inverted(self, msg, env) ==
    LET node_id == msg.node_id
        found == OptionFlatten(ResultOk(
                     read_peer_info(self.storage, node_id, env.read_fails)))
        saved == IF ~found.some
                 THEN save_ln_peer_info(self.storage, node_id,
                                        NodeAnnouncementInto(msg), env.write_fails)
                 ELSE [res |-> Ok(Unit), storage |-> self.storage]
        upd == update_node_from_announcement(self.network_graph, msg,
                                             env.graph_rejects)
    IN  [store_calls |-> 1 + (IF ~found.some THEN 1 ELSE 0),
         self |-> [storage |-> saved.storage, network_graph |-> upd.graph,
                   logger |-> IF saved.res.ok THEN self.logger
                              ELSE self.logger + 1],
         result |-> IF upd.res.ok THEN Ok(false) ELSE Err(upd.res.err)]

\* Variant: the graph update sits inside the "record exists" branch.
handle_node_announcement_update_inside(self, msg, env) ==
    LET node_id == msg.node_id
        found == OptionFlatten(ResultOk(
                     read_peer_info(self.storage, node_id, env.read_fails)))
        saved == IF found.some
                 THEN save_ln_peer_info(self.storage, node_id,
                                        NodeAnnouncementInto(msg), env.write_fails)
                 ELSE [res |-> Ok(Unit), storage |-> self.storage]
        upd == IF found.some
               THEN update_node_from_announcement(self.network_graph, msg,
                                                  env.graph_rejects)
               ELSE [res |-> Ok(Unit), graph |-> self.network_graph]
    IN  [store_calls |-> 1 + (IF found.some THEN 1 ELSE 0),
         self |-> [storage |-> saved.storage, network_graph |-> upd.graph,
                   logger |-> IF saved.res.ok THEN self.logger
                              ELSE self.logger + 1],
         result |-> IF upd.res.ok THEN Ok(false) ELSE Err(upd.res.err)]

\* Variant: a failed save returns early with the store's error (a `?` on it).
handle_node_announcement_store_question_mark(self, msg, env) ==
    LET node_id == msg.node_id
        found == OptionFlatten(ResultOk(
                     read_peer_info(self.storage, node_id, env.read_fails)))
        saved == IF found.some
                 THEN save_ln_peer_info(self.storage, node_id,
                                        NodeAnnouncementInto(msg), env.write_fails)
                 ELSE [res |-> Ok(Unit), storage |-> self.storage]
        upd == update_node_from_announcement(self.network_graph, msg,
                                             env.graph_rejects)
    IN  IF ~saved.res.ok
        THEN [store_calls |-> 1 + (IF found.some THEN 1 ELSE 0),
              self |-> self, result |-> Err(saved.res.err)]
        ELSE [store_calls |-> 1 + (IF found.some THEN 1 ELSE 0),
              self |-> [storage |-> saved.storage, network_graph |-> upd.graph,
                        logger |-> self.logger],
              result |-> IF upd.res.ok THEN Ok(false) ELSE Err(upd.res.err)]

\* Variant: the graph update (and its `?`) comes first, so a rejected
\* announcement returns before the store is looked at.
handle_node_announcement_validate_first(self, msg, env) ==
    LET node_id == msg.node_id
        upd == update_node_from_announcement(self.network_graph, msg,
                                             env.graph_rejects)
        found == OptionFlatten(ResultOk(
                     read_peer_info(self.storage, node_id, env.read_fails)))
        saved == IF found.some
                 THEN save_ln_peer_info(self.storage, node_id,
                                        NodeAnnouncementInto(msg), env.write_fails)
                 ELSE [res |-> Ok(Unit), storage |-> self.storage]
    IN  IF ~upd.res.ok
        THEN [store_calls |-> 0,
              self |-> [self EXCEPT !.network_graph = upd.graph],
              result |-> Err(upd.res.err)]
        ELSE [store_calls |-> 1 + (IF found.some THEN 1 ELSE 0),
              self |-> [storage |-> saved.storage, network_graph |-> upd.graph,
                        logger |-> IF saved.res.ok THEN self.logger
                                   ELSE self.logger + 1],
              result |-> Ok(false)]

\* handle_node_announcement: look the identity up; if a record exists, save
\* the announcement's metadata over it and log a warning when that fails;
\* then update the graph, returning its error (`?`) or Ok(false).
handle_node_announcement(self, msg, env) ==
    LET node_id == msg.node_id
        found == OptionFlatten(ResultOk(
                     read_peer_info(self.storage, node_id, env.read_fails)))
        saved == IF found.some
                 THEN save_ln_peer_info(self.storage, node_id,
                                        NodeAnnouncementInto(msg), env.write_fails)
                 ELSE [res |-> Ok(Unit), storage |-> self.storage]
        upd == update_node_from_announcement(self.network_graph, msg,
                                             env.graph_rejects)
    IN  [store_calls |-> 1 + (IF found.some THEN 1 ELSE 0),
         self |-> [storage |-> saved.storage, network_graph |-> upd.graph,
                   logger |-> IF saved.res.ok THEN self.logger
                              ELSE self.logger + 1],
         result |-> IF upd.res.ok THEN Ok(false) ELSE Err(upd.res.err)]

\* Variant: an ErroringUtxoLookup is handed to the graph instead of None.
handle_channel_announcement_with_lookup(self, msg, env) ==
    LET upd == update_channel_from_announcement(self.network_graph, msg,
                   Some("ErroringUtxoLookup"), env.graph_rejects)
    IN  [store_calls |-> 0,
         self |-> [self EXCEPT !.network_graph = upd.graph],
         result |-> IF upd.res.ok THEN Ok(false) ELSE Err(upd.res.err)]

\* handle_channel_announcement: update the graph with no UTXO lookup (&None).
handle_channel_announcement(self, msg, env) ==
    LET upd == update_channel_from_announcement(self.network_graph, msg,
                   None, env.graph_rejects)
    IN  [store_calls |-> 0,
         self |-> [self EXCEPT !.network_graph = upd.graph],
         result |-> IF upd.res.ok THEN Ok(false) ELSE Err(upd.res.err)]

\* Variant: the channel's identity is looked up in the metadata store first.
handle_channel_update_reading_store(self, msg, env) ==
    LET found == read_peer_info(self.storage, msg.short_channel_id, FALSE)
        upd == update_channel(self.network_graph, msg, env.graph_rejects)
    IN  [store_calls |-> IF found.ok THEN 1 ELSE 0,
         self |-> [self EXCEPT !.network_graph = upd.graph],
         result |-> IF upd.res.ok THEN Ok(false) ELSE Err(upd.res.err)]

\* Variant: the graph's error is dropped and Ok(false) answered regardless.
handle_channel_update_swallowing(self, msg, env) ==
    LET upd == update_channel(self.network_graph, msg, env.graph_rejects)
    IN  [store_calls |-> 0,
         self |-> [self EXCEPT !.network_graph = upd.graph],
         result |-> Ok(false)]

\* handle_channel_update: update the graph, `?`, Ok(false).
handle_channel_update(self, msg, env) ==
    LET upd == update_channel(self.network_graph, msg, env.graph_rejects)
    IN  [store_calls |-> 0,
         self |-> [self EXCEPT !.network_graph = upd.graph],
         result |-> IF upd.res.ok THEN Ok(false) ELSE Err(upd.res.err)]

get_next_channel_announcement(self, starting_point) ==
    [store_calls |-> 0,
     self |-> self, result |-> None]

\* Variant: serves a node the graph knows at or after the starting point.
get_next_node_announcement_serving(self, starting_point) ==
    [store_calls |-> 0,
     self |-> self,
     result |-> IF \E n \in self.network_graph.nodes : n >= starting_point
                THEN Some(CHOOSE n \in self.network_graph.nodes :
                              n >= starting_point)
                ELSE None]

get_next_node_announcement(self, starting_point) ==
    [store_calls |-> 0,
     self |-> self, result |-> None]

handle_reply_channel_range(self, their_node_id, msg) ==
    [store_calls |-> 0,
     self |-> self, result |-> Ok(Unit)]

handle_reply_short_channel_ids_end(self, their_node_id, msg) ==
    [store_calls |-> 0,
     self |-> self, result |-> Ok(Unit)]

handle_query_channel_range(self, their_node_id, msg) ==
    [store_calls |-> 0,
     self |-> self, result |-> Ok(Unit)]

handle_query_short_channel_ids(self, their_node_id, msg) ==
    [store_calls |-> 0,
     self |-> self, result |-> Ok(Unit)]

\* msgs::Init / NodeFeatures / InitFeatures: a set of feature flags.
Features(flags) == [flags |-> flags]
FeaturesEmpty == Features({})

\* Variant: inbound peers are turned away.
peer_connected_outbound_only(self, their_node_id, init, inbound) ==
    [store_calls |-> 0,
     self |-> self, result |-> IF inbound THEN Err(Unit) ELSE Ok(Unit)]

peer_connected(self, their_node_id, init, inbound) ==
    [store_calls |-> 0,
     self |-> self, result |-> Ok(Unit)]

processing_queue_high(self) ==
    [store_calls |-> 0,
     self |-> self, result |-> [high |-> FALSE]]

provided_node_features(self) ==
    [store_calls |-> 0,
     self |-> self, result |-> FeaturesEmpty]

\* Variant: gossip_queries is advertised once the graph knows a node.
provided_init_features_gossip_queries(self, their_node_id) ==
    [store_calls |-> 0,
     self |-> self,
     result |-> IF self.network_graph.nodes = {} THEN FeaturesEmpty
                ELSE Features({"gossip_queries"})]

provided_init_features(self, their_node_id) ==
    [store_calls |-> 0,
     self |-> self, result |-> FeaturesEmpty]

\* ------------------------------------------- MessageSendEventsProvider
\* Vec<MessageSendEvent>
Vec(events) == [vec |-> events]

\* Variant: one broadcast event is queued for every node the graph knows.
get_and_clear_pending_msg_events_announcing(self) ==
    [store_calls |-> 0,
     self |-> self,
     result |-> Vec([i \in 1..Cardinality(self.network_graph.nodes) |->
                        "BroadcastNodeAnnouncement"])]

\* get_and_clear_pending_msg_events: Vec::new()
get_and_clear_pending_msg_events(self) ==
    [store_calls |-> 0,
     self |-> self, result |-> Vec(<<>>)]

\* ----------------------------------------------------------------- actions
\* A call of one method: the handler's fields become what the method left,
\* and `last` records the call, its arguments and what it returned.
Call(op, args, env, r) ==
    /\ nOps < MaxOps
    /\ storage' = r.self.storage
    /\ network_graph' = r.self.network_graph
    /\ logger' = r.self.logger
    /\ last' = [op |-> op, msg |-> args, env |-> env, result |-> r.result,
                store_calls |-> r.store_calls]
    /\ nOps' = nOps + 1
    /\ UNCHANGED nmVars

NoEnv == [read_fails |-> FALSE, write_fails |-> FALSE, graph_rejects |-> FALSE]

HandleNodeAnnouncement ==
    \E msg \in NodeAnnouncements, env \in Envs :
        Call("handle_node_announcement", msg, env,
             handle_node_announcement(Self, msg, env))

HandleChannelAnnouncement ==
    \E msg \in ChannelAnnouncements, env \in GraphEnvs :
        Call("handle_channel_announcement", msg, env,
             handle_channel_announcement(Self, msg, env))

HandleChannelUpdate ==
    \E msg \in ChannelUpdates, env \in GraphEnvs :
        Call("handle_channel_update", msg, env,
             handle_channel_update(Self, msg, env))

GetNextChannelAnnouncement ==
    \E starting_point \in {0} \cup ShortChannelIds :
        Call("get_next_channel_announcement",
             [starting_point |-> starting_point], NoEnv,
             get_next_channel_announcement(Self, starting_point))

GetNextNodeAnnouncement ==
    \E starting_point \in {0} \cup NodeIds :
        Call("get_next_node_announcement",
             [starting_point |-> starting_point], NoEnv,
             get_next_node_announcement(Self, starting_point))

HandleReplyChannelRange ==
    \E their_node_id \in NodeIds, scid \in ShortChannelIds :
        Call("handle_reply_channel_range",
             [their_node_id |-> their_node_id, short_channel_ids |-> <<scid>>],
             NoEnv,
             handle_reply_channel_range(Self, their_node_id, <<scid>>))

HandleReplyShortChannelIdsEnd ==
    \E their_node_id \in NodeIds, full \in BOOLEAN :
        Call("handle_reply_short_channel_ids_end",
             [their_node_id |-> their_node_id, full_information |-> full],
             NoEnv,
             handle_reply_short_channel_ids_end(Self, their_node_id, full))

HandleQueryChannelRange ==
    \E their_node_id \in NodeIds, first_blocknum \in {0, 1} :
        Call("handle_query_channel_range",
             [their_node_id |-> their_node_id, first_blocknum |-> first_blocknum],
             NoEnv,
             handle_query_channel_range(Self, their_node_id, first_blocknum))

HandleQueryShortChannelIds ==
    \E their_node_id \in NodeIds, scid \in ShortChannelIds :
        Call("handle_query_short_channel_ids",
             [their_node_id |-> their_node_id, short_channel_ids |-> <<scid>>],
             NoEnv,
             handle_query_short_channel_ids(Self, their_node_id, <<scid>>))

PeerConnected ==
    \E their_node_id \in NodeIds, inbound \in BOOLEAN,
       init \in {FeaturesEmpty, Features({"gossip_queries"})} :
        Call("peer_connected",
             [their_node_id |-> their_node_id, init |-> init, inbound |-> inbound],
             NoEnv,
             peer_connected(Self, their_node_id, init, inbound))

ProcessingQueueHigh ==
    Call("processing_queue_high", None, NoEnv, processing_queue_high(Self))

ProvidedNodeFeatures ==
    Call("provided_node_features", None, NoEnv, provided_node_features(Self))

ProvidedInitFeatures ==
    \E their_node_id \in NodeIds :
        Call("provided_init_features", [their_node_id |-> their_node_id], NoEnv,
             provided_init_features(Self, their_node_id))

GetAndClearPendingMsgEvents ==
    Call("get_and_clear_pending_msg_events", None, NoEnv,
         get_and_clear_pending_msg_events(Self))

\* ------------------------------------------------------------ node-manager
\* Calls made on the node-manager API in one run.
MaxNmOps == 3

\* A String is a sequence of tokens: words and single whitespace characters.
\* A Mnemonic is a sequence of words that the word list and checksum accept.
Mnemonics == {<<"abandon", "zoo">>, <<"zoo", "abandon">>}

\* The strings handed to NodeManager::new: two mnemonics as their own
\* to_string() writes them, one with doubled whitespace, one with a word
\* outside the word list.
SeedStrings ==
    {<<"abandon", " ", "zoo">>, <<"zoo", " ", "abandon">>,
     <<"abandon", " ", " ", "zoo">>, <<"abandon", " ", "zebra">>}

IsWord(t) == t # " "

\* Mnemonic::from_str: split on whitespace, look every word up.
Mnemonic_from_str(str) ==
    LET words == SelectSeq(str, IsWord)
    IN  IF words \in Mnemonics THEN Ok(words) ELSE Err("ParseError")

\* Mnemonic::to_string: the words joined by one space.
RECURSIVE Mnemonic_to_string(_)
Mnemonic_to_string(m) ==
    IF Len(m) = 0 THEN <<>>
    ELSE IF Len(m) = 1 THEN <<m[1]>>
    ELSE <<m[1], " ">> \o Mnemonic_to_string(Tail(m))

\* storage::get_mnemonic() -> Result<Mnemonic, _>
get_mnemonic(store) == IF store.some THEN Ok(store.val) ELSE Err("NotFound")

\* storage::insert_mnemonic(seed) -> Mnemonic: stores the seed, returns it.
insert_mnemonic(store, seed) == [store |-> Some(seed), ret |-> seed]

\* storage::delete_mnemonic()
delete_mnemonic(store) == None

\* NodeManager::has_node_manager
has_node_manager(store) == get_mnemonic(store).ok

\* Variant: new(None) generates and stores a fresh seed without looking for
\* a stored one.
NodeManager_new_always_generates(store, mnemonic, generated, ws_fails) ==
    LET parsed == IF mnemonic.some THEN Mnemonic_from_str(mnemonic.val)
                  ELSE Ok(<<>>)
        ins == IF mnemonic.some
               THEN insert_mnemonic(store, parsed.val)
               ELSE insert_mnemonic(store, generated)
    IN  IF ~parsed.ok
        THEN [panicked |-> TRUE, store |-> store, nm |-> None]
        ELSE IF ws_fails
        THEN [panicked |-> TRUE, store |-> ins.store, nm |-> None]
        ELSE [panicked |-> FALSE, store |-> ins.store,
              nm |-> Some([mnemonic |-> ins.ret, counter |-> 0])]

\* NodeManager::new(mnemonic: Option<String>).  `generated` is what
\* seedgen::generate_seed would return, ws_fails whether WebSocket::open
\* returns an error (which .unwrap() turns into a panic).
NodeManager_new(store, mnemonic, generated, ws_fails) ==
    LET parsed == IF mnemonic.some THEN Mnemonic_from_str(mnemonic.val)
                  ELSE Ok(<<>>)
        got == get_mnemonic(store)
        ins == IF mnemonic.some
               THEN insert_mnemonic(store, parsed.val)
               ELSE IF got.ok
               THEN [store |-> store, ret |-> got.val]
               ELSE insert_mnemonic(store, generated)
    IN  IF ~parsed.ok
        THEN [panicked |-> TRUE, store |-> store, nm |-> None]
        ELSE IF ws_fails
        THEN [panicked |-> TRUE, store |-> ins.store, nm |-> None]
        ELSE [panicked |-> FALSE, store |-> ins.store,
              nm |-> Some([mnemonic |-> ins.ret, counter |-> 0])]

\* NodeManager::show_seed
show_seed(nm) == Mnemonic_to_string(nm.mnemonic)

\* NodeManager::test_ws: sends "Test number {counter}", then counts up.
test_ws(nm) == [nm EXCEPT !.counter = @ + 1]

\* One call on the node-manager API, as recorded in nm_last.
NmCall(op, arg, panicked, ret_bool, ret_string) ==
    [op |-> op, arg |-> arg, panicked |-> panicked,
     ret_bool |-> ret_bool, ret_string |-> ret_string]

handlerVars == <<storage, network_graph, logger, last>>

New ==
    \E mnemonic \in {None} \cup {Some(str) : str \in SeedStrings},
       generated \in Mnemonics, ws_fails \in BOOLEAN :
        LET r == NodeManager_new(mnemonic_store, mnemonic, generated, ws_fails)
        IN  /\ nOps < MaxNmOps
            /\ mnemonic_store' = r.store
            /\ managers' = IF r.panicked THEN managers
                           ELSE Append(managers, r.nm.val)
            /\ nm_last' = NmCall("new", mnemonic, r.panicked, FALSE, <<>>)
            /\ nOps' = nOps + 1
            /\ UNCHANGED handlerVars

HasNodeManager ==
    /\ nOps < MaxNmOps
    /\ nm_last' = NmCall("has_node_manager", None, FALSE,
                         has_node_manager(mnemonic_store), <<>>)
    /\ nOps' = nOps + 1
    /\ UNCHANGED <<mnemonic_store, managers, handlerVars>>

ShowSeed ==
    \E i \in DOMAIN managers :
        /\ nOps < MaxNmOps
        /\ nm_last' = NmCall("show_seed", Some(<<i>>), FALSE, FALSE,
                             show_seed(managers[i]))
        /\ nOps' = nOps + 1
        /\ UNCHANGED <<mnemonic_store, managers, handlerVars>>

TestWs ==
    \E i \in DOMAIN managers :
        /\ nOps < MaxNmOps
        /\ managers' = [managers EXCEPT ![i] = test_ws(@)]
        /\ nm_last' = NmCall("test_ws", Some(<<i>>), FALSE, FALSE, <<>>)
        /\ nOps' = nOps + 1
        /\ UNCHANGED <<mnemonic_store, handlerVars>>

DeleteMnemonic ==
    /\ nOps < MaxNmOps
    /\ mnemonic_store' = delete_mnemonic(mnemonic_store)
    /\ nm_last' = NmCall("delete_mnemonic", None, FALSE, FALSE, <<>>)
    /\ nOps' = nOps + 1
    /\ UNCHANGED <<managers, handlerVars>>

\* ------------------------------------------------------------ specification
\* Any set of identities may already have a record when the handler is built
\* (each with the metadata it was first saved with); the graph starts empty
\* and has received no call.
Init ==
    /\ \E known \in SUBSET NodeIds :
           storage = [k \in known |->
                         [node_id |-> k, alias |-> "old", rgb_color |-> <<0, 0, 0>>]]
    /\ network_graph =
           [nodes |-> {}, channels |-> {}, updated |-> {}, lookups |-> {},
            calls |-> [update_node_from_announcement |-> 0,
                       update_channel_from_announcement |-> 0,
                       update_channel |-> 0,
                       get_utxo |-> 0]]
    /\ logger = 0
    /\ last = [op |-> "new", msg |-> None, env |-> NoEnv, result |-> Ok(Unit),
               store_calls |-> 0]
    /\ nOps = 0
    /\ mnemonic_store = None
    /\ managers = <<>>
    /\ nm_last = NmCall("none", None, FALSE, FALSE, <<>>)

Next ==
    \/ HandleNodeAnnouncement
    \/ HandleChannelAnnouncement
    \/ HandleChannelUpdate
    \/ GetNextChannelAnnouncement
    \/ GetNextNodeAnnouncement
    \/ HandleReplyChannelRange
    \/ HandleReplyShortChannelIdsEnd
    \/ HandleQueryChannelRange
    \/ HandleQueryShortChannelIds
    \/ PeerConnected
    \/ ProcessingQueueHigh
    \/ ProvidedNodeFeatures
    \/ ProvidedInitFeatures
    \/ GetAndClearPendingMsgEvents

Spec == Init /\ [][Next]_vars

\* The node-manager on its own: browser storage may already hold a mnemonic
\* from an earlier session.
InitNodeManager ==
    /\ storage = <<>>
    /\ network_graph =
           [nodes |-> {}, channels |-> {}, updated |-> {}, lookups |-> {},
            calls |-> [update_node_from_announcement |-> 0,
                       update_channel_from_announcement |-> 0,
                       update_channel |-> 0,
                       get_utxo |-> 0]]
    /\ logger = 0
    /\ last = [op |-> "new", msg |-> None, env |-> NoEnv, result |-> Ok(Unit),
               store_calls |-> 0]
    /\ nOps = 0
    /\ mnemonic_store \in {None} \cup {Some(m) : m \in Mnemonics}
    /\ managers = <<>>
    /\ nm_last = NmCall("none", None, FALSE, FALSE, <<>>)

NextNodeManager ==
    \/ New
    \/ HasNodeManager
    \/ ShowSeed
    \/ TestWs
    \/ DeleteMnemonic

SpecNodeManager == InitNodeManager /\ [][NextNodeManager]_vars

\* ------------------------------------------------------------------ claims
\* A step that is a call of method `op` (every call advances nOps).
Called(op) == nOps' = nOps + 1 /\ last'.op = op

GossipOps ==
    {"handle_node_announcement", "handle_channel_announcement",
     "handle_channel_update"}

BulkSyncOps ==
    {"get_next_channel_announcement", "get_next_node_announcement",
     "handle_reply_channel_range", "handle_reply_short_channel_ids_end",
     "handle_query_channel_range", "handle_query_short_channel_ids"}

\* C1: handling a node announcement never changes the set of identities that
\* have a metadata record; in particular an announcement for an identity
\* without a record creates none, whether the graph accepts or rejects it.
C1_NoRecordCreated ==
    [][Called("handle_node_announcement")
          => DOMAIN storage' = DOMAIN storage]_vars

\* C1 witness: an announcement for an identity without a record was handled,
\* the graph rejected it, and the identity still has no record.
C1_Witness ==
    /\ last.op = "handle_node_announcement"
    /\ last.msg.node_id \notin DOMAIN storage
    /\ last.env.graph_rejects
    /\ DOMAIN storage # {}

\* C2: when a node announcement arrives for an identity A that has a record
\* and the store read and write succeed, A's record afterwards carries the
\* announcement's alias and rgb_color and node_id A, and every other
\* identity's record is as before.
C2_RecordRefreshed ==
    [][(/\ Called("handle_node_announcement")
        /\ last'.msg.node_id \in DOMAIN storage
        /\ ~last'.env.read_fails
        /\ ~last'.env.write_fails)
          => /\ DOMAIN storage' = DOMAIN storage
             /\ storage'[last'.msg.node_id].alias = last'.msg.alias
             /\ storage'[last'.msg.node_id].rgb_color = last'.msg.rgb_color
             /\ storage'[last'.msg.node_id].node_id = last'.msg.node_id
             /\ \A k \in DOMAIN storage :
                    k # last'.msg.node_id => storage'[k] = storage[k]]_vars

\* C2 witness: identity A held {alias "old", color [0,0,0]}; the announcement
\* {alias "new", color [1,2,3]} was handled with a successful write, and the
\* record now reads "new", [1,2,3] while another identity's record exists.
C2_Witness ==
    /\ last.op = "handle_node_announcement"
    /\ ~last.env.read_fails /\ ~last.env.write_fails
    /\ last.msg.alias = "new" /\ last.msg.rgb_color = <<1, 2, 3>>
    /\ last.msg.node_id \in DOMAIN storage
    /\ storage[last.msg.node_id].alias = "new"
    /\ storage[last.msg.node_id].rgb_color = <<1, 2, 3>>
    /\ \E k \in DOMAIN storage : k # last.msg.node_id /\ storage[k].alias = "old"

\* C3: each handled node announcement, channel announcement and channel
\* update makes exactly one call of the matching graph update and no call of
\* the other two, whether the graph accepts it and whether a record exists.
C3_ExactlyOneGraphCall ==
    [][/\ Called("handle_node_announcement") =>
            network_graph'.calls =
                [network_graph.calls EXCEPT !.update_node_from_announcement = @ + 1]
       /\ Called("handle_channel_announcement") =>
            network_graph'.calls =
                [network_graph.calls EXCEPT !.update_channel_from_announcement = @ + 1]
       /\ Called("handle_channel_update") =>
            network_graph'.calls =
                [network_graph.calls EXCEPT !.update_channel = @ + 1]]_vars

\* C3 witness: a rejected node announcement for an identity without a record
\* has been handled after another gossip message, and the graph has counted
\* one node update.
C3_Witness ==
    /\ last.op = "handle_node_announcement"
    /\ last.env.graph_rejects
    /\ last.msg.node_id \notin DOMAIN storage
    /\ network_graph.calls.update_node_from_announcement = 1
    /\ network_graph.calls.update_channel_from_announcement
           + network_graph.calls.update_channel = 1

\* C4 (as claimed): the three gossip handlers answer Ok(false) whether the
\* graph update succeeded or failed.
C4_AlwaysAccepted ==
    last.op \in GossipOps => last.result = Ok(false)

\* C4 (amended): the three gossip handlers answer Ok(false) exactly when the
\* graph update succeeded; when it failed they return the graph's validation
\* error to the caller.
C4_ErrorPropagated ==
    last.op \in GossipOps =>
        last.result = IF last.env.graph_rejects
                      THEN Err("ValidationError")
                      ELSE Ok(false)

\* C4 witness: a channel update the graph rejected has been handled and the
\* handler returned the validation error.
C4_Witness ==
    /\ last.op = "handle_channel_update"
    /\ last.env.graph_rejects
    /\ ~last.result.ok

\* C5: a store failure while handling a node announcement (the lookup errors,
\* or the overwrite of an existing record fails) changes neither the graph
\* update nor the value returned: both are what they would have been had the
\* store operations succeeded.
C5_StoreFailureNotPropagated ==
    [][(/\ Called("handle_node_announcement")
        /\ \/ last'.env.read_fails
           \/ last'.msg.node_id \in DOMAIN storage /\ last'.env.write_fails)
          => LET healthy == [last'.env EXCEPT !.read_fails = FALSE,
                                              !.write_fails = FALSE]
                 expect == handle_node_announcement(Self, last'.msg, healthy)
             IN  /\ last'.result = expect.result
                 /\ network_graph' = expect.self.network_graph
                 /\ network_graph'.calls.update_node_from_announcement =
                        network_graph.calls.update_node_from_announcement + 1]_vars

\* C5 witness: the overwrite of an existing record failed (a warning was
\* logged), the graph accepted the announcement and the handler returned
\* Ok(false).
C5_Witness ==
    /\ last.op = "handle_node_announcement"
    /\ ~last.env.read_fails /\ last.env.write_fails
    /\ last.msg.node_id \in DOMAIN storage
    /\ logger > 0
    /\ last.result = Ok(false)
    /\ last.msg.node_id \in network_graph.nodes

\* C6: in every state and for every argument, the two get_next_* methods
\* return None and the four range / short-channel-id query and reply handlers
\* return Ok(()), and none of them changes the store, the graph or the log
\* (the handler has no other state, so nothing is queued).
C6_BulkSyncEmpty ==
    [][(nOps' = nOps + 1 /\ last'.op \in BulkSyncOps)
          => /\ storage' = storage
             /\ network_graph' = network_graph
             /\ logger' = logger
             /\ last'.result =
                    IF last'.op \in {"get_next_channel_announcement",
                                     "get_next_node_announcement"}
                    THEN None
                    ELSE Ok(Unit)]_vars

\* C6 witness: get_next_node_announcement answered None although the graph
\* holds a node at or after the starting point.
C6_Witness ==
    /\ last.op = "get_next_node_announcement"
    /\ \E n \in network_graph.nodes : n >= last.msg.starting_point
    /\ last.result = None

\* C7 (as claimed): a handled channel announcement reaches the graph together
\* with the always-failing ErroringUtxoLookup.
C7_UsesErroringLookup ==
    last.op = "handle_channel_announcement" =>
        Some("ErroringUtxoLookup") \in network_graph.lookups

\* C7 (amended): a handled channel announcement reaches the graph with no
\* UTXO lookup at all (None); ErroringUtxoLookup::get_utxo is never called,
\* and the handler's result is decided by the graph's own validation alone.
C7_NoLookupPassed ==
    /\ network_graph.lookups \subseteq {None}
    /\ network_graph.calls.get_utxo = 0
    /\ last.op = "handle_channel_announcement" =>
           /\ network_graph.lookups = {None}
           /\ last.result.ok = ~last.env.graph_rejects
           /\ last.result.ok => last.msg.short_channel_id \in network_graph.channels

\* C7 witness: a channel announcement was handled, accepted by the graph
\* without any lookup, and the channel is now in the graph.
C7_Witness ==
    /\ last.op = "handle_channel_announcement"
    /\ last.result = Ok(false)
    /\ last.msg.short_channel_id \in network_graph.channels
    /\ network_graph.calls.get_utxo = 0

\* C15: in every state, after any sequence of announcements, queries and
\* peer connections, get_and_clear_pending_msg_events returns an empty list
\* and leaves the handler as it was.
C15_NoPendingMsgEvents ==
    [][Called("get_and_clear_pending_msg_events")
          => /\ last'.result = Vec(<<>>)
             /\ storage' = storage
             /\ network_graph' = network_graph
             /\ logger' = logger]_vars

\* C15 witness: the queue was queried right after the graph accepted a node
\* announcement, and the answer was the empty list.
C15_Witness ==
    /\ last.op = "get_and_clear_pending_msg_events"
    /\ network_graph.nodes # {}
    /\ last.result = Vec(<<>>)

\* C16: peer_connected returns Ok(()) for every identity, init message and
\* direction, and provided_node_features / provided_init_features return the
\* empty feature set for every peer, whatever the handler holds.
C16_MinimalFeatures ==
    /\ last.op = "peer_connected" => last.result = Ok(Unit)
    /\ last.op \in {"provided_node_features", "provided_init_features"}
           => last.result = FeaturesEmpty

\* C16 witness: with a node in the graph, an inbound peer advertising
\* gossip_queries was accepted.
C16_Witness ==
    /\ last.op = "peer_connected"
    /\ last.msg.inbound
    /\ last.msg.init = Features({"gossip_queries"})
    /\ network_graph.nodes # {}
    /\ last.result = Ok(Unit)

\* C16 second witness state: the init features were asked for while the graph
\* holds a node, and were empty.
C16_WitnessFeatures ==
    /\ last.op = "provided_init_features"
    /\ network_graph.nodes # {}
    /\ last.result = FeaturesEmpty

\* C17: handling a channel announcement or a channel update makes no call on
\* the metadata store (no read, no write) and leaves its contents and the
\* log unchanged; only the graph is written.
C17_ChannelMessagesSkipStore ==
    [][(nOps' = nOps + 1
        /\ last'.op \in {"handle_channel_announcement", "handle_channel_update"})
          => /\ last'.store_calls = 0
             /\ storage' = storage
             /\ logger' = logger
             /\ network_graph' # network_graph]_vars

\* C17 witness: a channel update was handled while the store holds a record,
\* the graph took the update, and no store call was made.
C17_Witness ==
    /\ last.op = "handle_channel_update"
    /\ DOMAIN storage # {}
    /\ last.store_calls = 0
    /\ last.msg.short_channel_id \in network_graph.updated

\* C20: in handle_node_announcement the overwrite of an existing record does
\* not depend on the graph's verdict: when the lookup and the write succeed
\* and the graph then rejects the announcement, the record nevertheless
\* carries the announcement's alias and colour and the handler returns the
\* graph's error; the write is neither skipped nor rolled back.
C20_SavedDespiteRejection ==
    [][(/\ Called("handle_node_announcement")
        /\ last'.msg.node_id \in DOMAIN storage
        /\ ~last'.env.read_fails
        /\ ~last'.env.write_fails
        /\ last'.env.graph_rejects)
          => /\ storage'[last'.msg.node_id] = NodeAnnouncementInto(last'.msg)
             /\ last'.store_calls = 2
             /\ last'.result = Err("ValidationError")
             /\ last'.msg.node_id \notin network_graph'.nodes
                    \/ last'.msg.node_id \in network_graph.nodes]_vars

\* C20 witness: identity A's record read "old"; the announcement "new" was
\* rejected by the graph, the handler returned the error, and A's record
\* now reads "new".
C20_Witness ==
    /\ last.op = "handle_node_announcement"
    /\ last.env.graph_rejects /\ ~last.env.read_fails /\ ~last.env.write_fails
    /\ ~last.result.ok
    /\ last.msg.alias = "new"
    /\ last.msg.node_id \in DOMAIN storage
    /\ storage[last.msg.node_id].alias = "new"
    /\ last.msg.node_id \notin network_graph.nodes

\* A step that is a call `op` on the node-manager API.
NmCalled(op) == nOps' = nOps + 1 /\ nm_last'.op = op

\* The NodeManager a successful new has just returned.
Newest(ms) == ms[Len(ms)]

\* C19 (as claimed): has_node_manager() is false while no mnemonic is stored
\* and true after any NodeManager::new; new(Some(m)) stores m and show_seed()
\* returns exactly m; new(None) reuses a stored mnemonic and generates and
\* stores one only when none is stored.
C19_SeedLifecycle ==
    [][/\ NmCalled("has_node_manager") =>
            nm_last'.ret_bool = mnemonic_store.some
       /\ NmCalled("new") =>
            /\ has_node_manager(mnemonic_store')
            /\ nm_last'.arg.some =>
                 /\ mnemonic_store'.some
                 /\ Mnemonic_to_string(mnemonic_store'.val) = nm_last'.arg.val
                 /\ ~nm_last'.panicked =>
                        show_seed(Newest(managers')) = nm_last'.arg.val
            /\ ~nm_last'.arg.some =>
                 IF mnemonic_store.some THEN mnemonic_store' = mnemonic_store
                 ELSE mnemonic_store'.some]_vars

\* C19 (amended): has_node_manager() is true exactly while a mnemonic is
\* stored.  new(Some(m)) with an m that does not parse panics and changes
\* nothing; with an m that parses it stores the parsed mnemonic, and
\* show_seed() returns that mnemonic's text, which is m when m is written as
\* to_string() writes it.  new(None) reuses a stored mnemonic and generates
\* and stores one only when none is stored.  After every new whose argument
\* parsed, has_node_manager() is true.
C19_SeedLifecycleParsed ==
    [][/\ NmCalled("has_node_manager") =>
            nm_last'.ret_bool = mnemonic_store.some
       /\ NmCalled("new") =>
            LET arg == nm_last'.arg
                parsed == IF arg.some THEN Mnemonic_from_str(arg.val) ELSE Ok(<<>>)
            IN  /\ ~parsed.ok =>
                     /\ nm_last'.panicked
                     /\ mnemonic_store' = mnemonic_store
                     /\ managers' = managers
                /\ parsed.ok => has_node_manager(mnemonic_store')
                /\ (arg.some /\ parsed.ok) =>
                     /\ mnemonic_store' = Some(parsed.val)
                     /\ ~nm_last'.panicked =>
                          /\ show_seed(Newest(managers')) =
                                 Mnemonic_to_string(parsed.val)
                          /\ arg.val = Mnemonic_to_string(parsed.val) =>
                                 show_seed(Newest(managers')) = arg.val
                /\ ~arg.some =>
                     /\ mnemonic_store.some => mnemonic_store' = mnemonic_store
                     /\ ~nm_last'.panicked =>
                            Some(Newest(managers').mnemonic) = mnemonic_store']_vars

\* C19 witness: new(Some("abandon  zoo")), written with two spaces, returned
\* while another mnemonic was stored before; the store now holds
\* <<abandon, zoo>> and show_seed() answers "abandon zoo", not the argument.
C19_Witness ==
    /\ nm_last.op = "new"
    /\ nm_last.arg = Some(<<"abandon", " ", " ", "zoo">>)
    /\ ~nm_last.panicked
    /\ mnemonic_store = Some(<<"abandon", "zoo">>)
    /\ show_seed(Newest(managers)) = <<"abandon", " ", "zoo">>
    /\ Len(managers) = 2
    /\ managers[1].mnemonic = <<"zoo", "abandon">>

====
